---- MODULE Spec2Model ----
(***************************************************************************)
(* Model of add_geometrynode_mesh.py: the NodeContext helper, the          *)
(* NODE_MESH enumeration and the AddGeometryNodeMesh operator              *)
(* (invoke / execute / action_common) acting on the host's data:           *)
(* bpy.data.meshes, bpy.data.objects, the scene's 3D cursor, the selection *)
(* and the view layer's active object.                                     *)
(*                                                                         *)
(* Python indexes from 0 and TLA+ from 1: location[0] is location[1] here, *)
(* value[0] is value[1].  Socket indices (outputs[0], inputs[0]) are kept  *)
(* as the numbers the source writes.                                       *)
(***************************************************************************)
EXTENDS Integers, Sequences, FiniteSets, TLC

Range(s) == {s[i] : i \in 1..Len(s)}

\* ---------------------------------------------------------------- bounds

\* objects the scene may hold before the operator stops being called
MaxObjects == 2
\* nodes a freshly created node group may hold before the graph is built
MaxInitNodes == 3
\* step_across / step_down calls made on one NodeContext
MaxSteps == 2

\* locations the 3D cursor and the position property are drawn from
Points == {<<0, 0, 0>>, <<1, 2, 3>>}

\* widths and heights handed to step_across / step_down
Steps == {100, 200}

\* ------------------------------------------------------------ NODE_MESH

\* a label is kept as the sequence of its code points, so that sorted()
\* compares labels the way Python compares strings
L_Circle == <<67, 105, 114, 99, 108, 101>>
L_Cone == <<67, 111, 110, 101>>
L_Cube == <<67, 117, 98, 101>>
L_Cylinder == <<67, 121, 108, 105, 110, 100, 101, 114>>
L_GridPlane == <<71, 114, 105, 100, 47, 80, 108, 97, 110, 101>>
L_IcoSphere == <<73, 99, 111, 32, 83, 112, 104, 101, 114, 101>>
L_Line == <<76, 105, 110, 101>>
L_UVSphere == <<85, 86, 32, 83, 112, 104, 101, 114, 101>>

\* NODE_MESH.__members__.values(), in definition order
NODE_MESH ==
    << [name |-> "CIRCLE", value |-> <<L_Circle, "GeometryNodeMeshCircle">>],
       [name |-> "CONE", value |-> <<L_Cone, "GeometryNodeMeshCone">>],
       [name |-> "CUBE", value |-> <<L_Cube, "GeometryNodeMeshCube">>],
       [name |-> "CYLINDER", value |-> <<L_Cylinder, "GeometryNodeMeshCylinder">>],
       [name |-> "GRID", value |-> <<L_GridPlane, "GeometryNodeMeshGrid">>],
       [name |-> "ICO_SPHERE", value |-> <<L_IcoSphere, "GeometryNodeMeshIcoSphere">>],
       [name |-> "LINE", value |-> <<L_Line, "GeometryNodeMeshLine">>],
       [name |-> "UV_SPHERE", value |-> <<L_UVSphere, "GeometryNodeMeshUVSphere">>] >>

label(item) == item.value[1]

typename(item) == item.value[2]

NODE_MESH_DEFAULT == NODE_MESH[3]

\* Python's < on strings: lexicographic on code points, a proper prefix first
RECURSIVE StrLess(_, _)
StrLess(a, b) ==
    IF a = <<>> THEN b # <<>>
    ELSE IF b = <<>> THEN FALSE
    ELSE IF a[1] # b[1] THEN a[1] < b[1]
    ELSE StrLess(Tail(a), Tail(b))

\* one insertion of the stable sort: item goes after every element whose
\* label is not greater than its own
RECURSIVE InsertByLabel(_, _)
InsertByLabel(item, s) ==
    IF s = <<>> THEN <<item>>
    ELSE IF StrLess(label(item), label(s[1])) THEN <<item>> \o s
    ELSE <<s[1]>> \o InsertByLabel(item, Tail(s))

\* the same sort with the comparison turned round (descending labels)
RECURSIVE InsertByLabelDesc(_, _)
InsertByLabelDesc(item, s) ==
    IF s = <<>> THEN <<item>>
    ELSE IF StrLess(label(s[1]), label(item)) THEN <<item>> \o s
    ELSE <<s[1]>> \o InsertByLabelDesc(item, Tail(s))

RECURSIVE sorted_by_label_desc(_)
sorted_by_label_desc(s) ==
    IF s = <<>> THEN <<>>
    ELSE InsertByLabelDesc(s[Len(s)], sorted_by_label_desc(SubSeq(s, 1, Len(s) - 1)))

\* sorted(seq, key = lambda i : i.label)
RECURSIVE sorted_by_label(_)
sorted_by_label(s) ==
    IF s = <<>> THEN <<>>
    ELSE InsertByLabel(s[Len(s)], sorted_by_label(SubSeq(s, 1, Len(s) - 1)))

\* one item of the EnumProperty: (identifier, name, description)
enum_item(item) == <<typename(item), label(item), label(item)>>

\* the items of the meshtype property
meshtype_items ==
    LET s == sorted_by_label(NODE_MESH)
    IN [i \in 1..Len(s) |-> enum_item(s[i])]

meshtype_default == typename(NODE_MESH_DEFAULT)

MeshTypes == {meshtype_items[i][1] : i \in 1..Len(meshtype_items)}

\* ------------------------------------------------- node trees of the host

\* A node tree is [nodes, links].  A node is [id, type, location, select]:
\* id stands for the node's identity (the host hands out references to
\* nodes); a link is [from_node, from_socket, to_node, to_socket].

NodeIds(graph) == {graph.nodes[i].id : i \in 1..Len(graph.nodes)}

\* the node group the host gives a new NODES modifier: n nodes, each
\* linked to the next
FreshNodeGroup(n) ==
    [nodes |-> [i \in 1..n |->
                  [id |-> i,
                   type |-> IF i % 2 = 1 THEN "NodeGroupInput" ELSE "NodeGroupOutput",
                   location |-> <<200 * (i - 1), 0>>,
                   select |-> FALSE]],
     links |-> [i \in 1..(IF n = 0 THEN 0 ELSE n - 1) |->
                  [from_node |-> i, from_socket |-> 0,
                   to_node |-> i + 1, to_socket |-> 0]]]

RECURSIVE SelectSeq2(_, _)
SelectSeq2(s, keep) ==
    IF s = <<>> THEN <<>>
    ELSE IF s[1] \in keep THEN <<s[1]>> \o SelectSeq2(Tail(s), keep)
    ELSE SelectSeq2(Tail(s), keep)

\* graph.nodes.remove(node): the node goes, and with it every link that
\* starts or ends at it
nodes_remove(graph, id) ==
    [nodes |-> SelectSeq2(graph.nodes, {x \in Range(graph.nodes) : x.id # id}),
     links |-> SelectSeq2(graph.links,
                 {l \in Range(graph.links) : l.from_node # id /\ l.to_node # id})]

\* the node that follows node id in the collection, 0 when it is the last
NextNodeId(graph, id) ==
    LET i == CHOOSE k \in 1..Len(graph.nodes) : graph.nodes[k].id = id
    IN IF i < Len(graph.nodes) THEN graph.nodes[i + 1].id ELSE 0

\* "for node in self.graph.nodes : self.graph.nodes.remove(node)".  The
\* host's iterator over a collection steps to the following element before
\* it hands the current one to the loop body, so "it" is the node the
\* iterator yields next (0: exhausted) and the body removes a node the
\* iterator no longer refers to.
RECURSIVE ClearLoop(_, _)
ClearLoop(graph, it) ==
    IF it = 0 THEN graph
    ELSE ClearLoop(nodes_remove(graph, it), NextNodeId(graph, it))

\* the same loop over a collection that iterates by index, as a Python
\* list does: removing the current element shifts the rest down
RECURSIVE ClearLoopByIndex(_, _)
ClearLoopByIndex(graph, i) ==
    IF i > Len(graph.nodes) THEN graph
    ELSE ClearLoopByIndex(nodes_remove(graph, graph.nodes[i].id), i + 1)

clear_nodes_by_index(graph) == ClearLoopByIndex(graph, 1)

\* the loop of NodeContext.__init__ under "if clear"
clear_nodes(graph) ==
    ClearLoop(graph, IF graph.nodes = <<>> THEN 0 ELSE graph.nodes[1].id)

\* graph.nodes.new(type): a new node, selected, at the origin of the
\* editor, with an identity no node of the tree has
nodes_new(graph, type) ==
    LET id == CHOOSE k \in 1..(Len(graph.nodes) + 1) : k \notin NodeIds(graph)
    IN [graph |-> [graph EXCEPT !.nodes =
                     Append(@, [id |-> id, type |-> type,
                                location |-> <<0, 0>>, select |-> TRUE])],
        node |-> id]

\* graph.links.new(from, to)
links_new(graph, from, to) ==
    [graph EXCEPT !.links =
       Append(@, [from_node |-> from.node, from_socket |-> from.index,
                  to_node |-> to.node, to_socket |-> to.index])]

\* node.outputs[i], node.inputs[i]
outputs(node, i) == [node |-> node, index |-> i]

inputs(node, i) == [node |-> node, index |-> i]

\* ---------------------------------------------------------- NodeContext

\* A NodeContext is [graph, heap, _location]: heap holds the Python lists
\* the context has made (a list is a mutable object, reached through its
\* address, an index of heap) and _location is the address of the list
\* self._location.

\* NodeContext.__init__(graph, location, clear)
NodeContext(graph, location, clear) ==
    [graph |-> IF clear THEN clear_nodes(graph) ELSE graph,
     heap |-> << <<location[1], location[2]>> >>,
     _location |-> 1]

\* step_across that hands out self._location itself instead of a copy
step_across_alias(self, width) ==
    [self |-> [self EXCEPT !.heap[self._location][1] = @ + width],
     result |-> self._location]

\* step_across(width): result is a new list, the copy self._location[:]
step_across(self, width) ==
    LET result == Len(self.heap) + 1
        copied == Append(self.heap, self.heap[self._location])
    IN [self |-> [self EXCEPT !.heap =
                    [copied EXCEPT ![self._location][1] = @ + width]],
        result |-> result]

\* step_down(height)
step_down(self, height) ==
    LET result == Len(self.heap) + 1
        copied == Append(self.heap, self.heap[self._location])
    IN [self |-> [self EXCEPT !.heap =
                    [copied EXCEPT ![self._location][2] = @ - height]],
        result |-> result]

\* the pos property, read: a tuple of the two coordinates
pos(self) == <<self.heap[self._location][1], self.heap[self._location][2]>>

\* the pos property, written: self._location[:] = [pos[0], pos[1]]
pos_set(self, p) == [self EXCEPT !.heap[self._location] = <<p[1], p[2]>>]

\* node(type, pos): pos is the address of a list
node(self, type, p) ==
    LET made == nodes_new(self.graph, type)
        i == CHOOSE k \in 1..Len(made.graph.nodes) : made.graph.nodes[k].id = made.node
    IN [self |-> [self EXCEPT !.graph =
                    [made.graph EXCEPT !.nodes[i].location =
                       <<self.heap[p][1], self.heap[p][2]>>]],
        node |-> made.node]

\* link with its two sockets handed to links.new the wrong way round
link_reversed(self, from, to) == [self EXCEPT !.graph = links_new(@, to, from)]

\* link(from, to)
link(self, from, to) == [self EXCEPT !.graph = links_new(@, from, to)]

\* deselect_all(node_graph)
deselect_all(node_graph) ==
    [node_graph EXCEPT !.nodes =
       [i \in 1..Len(node_graph.nodes) |-> [node_graph.nodes[i] EXCEPT !.select = FALSE]]]

\* lines 171-175 of action_common: the graph built in the modifier's node
\* group; the result is the NodeContext, whose graph is the node group
build_graph(node_group, type) ==
    LET ctx0 == NodeContext(node_group, <<0, 0>>, TRUE)
        s1 == step_across(ctx0, 200)
        geom == node(s1.self, type, s1.result)
        s2 == step_across(geom.self, 100)
        output == node(s2.self, "NodeGroupOutput", s2.result)
        ctx == link(output.self, outputs(geom.node, 0), inputs(output.node, 0))
    IN [ctx EXCEPT !.graph = deselect_all(ctx.graph)]

\* ------------------------------------------------ datablocks of the host

\* A datablock name is [base, num]: "GeomNodeMesh" is num 0 and
\* "GeomNodeMesh.001" is num 1.  A mesh is [name, vertices, edges, polygons,
\* origin]; origin tells the meshes action_common made from the user's.
\* An object is [name, data, matrix_basis, modifiers, select, linked]; data
\* is the mesh's place in bpy.data.meshes.  An object is referred to
\* by its place in bpy.data.objects, 0 standing for None.

GeomNodeMesh == [base |-> "GeomNodeMesh", num |-> 0]

NamesOf(blocks) == {blocks[i].name : i \in 1..Len(blocks)}

\* the name the host gives a new datablock: the wanted one when it is
\* free, otherwise the same base with the lowest free number
unique_name(used, want) ==
    IF want \notin used THEN want
    ELSE [base |-> want.base,
          num |-> CHOOSE k \in 1..(Cardinality(used) + 1) :
                    /\ [base |-> want.base, num |-> k] \notin used
                    /\ \A j \in 1..(k - 1) : [base |-> want.base, num |-> j] \in used]

\* bpy.data.meshes.new(name)
meshes_new(blocks, name) ==
    Append(blocks, [name |-> unique_name(NamesOf(blocks), name),
                    vertices |-> <<>>, edges |-> <<>>, polygons |-> <<>>,
                    origin |-> "action_common"])

\* a from_pydata that leaves a placeholder vertex in a mesh given no data
from_pydata_placeholder(mesh, vertices, edges, faces) ==
    [mesh EXCEPT
       !.vertices = @ \o (IF vertices = <<>> THEN <<[co |-> <<0, 0, 0>>, select |-> FALSE]>>
                          ELSE [i \in 1..Len(vertices) |->
                                  [co |-> vertices[i], select |-> FALSE]]),
       !.edges = @ \o edges,
       !.polygons = @ \o faces]

\* mesh.from_pydata(vertices, edges, faces)
from_pydata(mesh, vertices, edges, faces) ==
    [mesh EXCEPT
       !.vertices = @ \o [i \in 1..Len(vertices) |-> [co |-> vertices[i], select |-> FALSE]],
       !.edges = @ \o edges,
       !.polygons = @ \o faces]

\* "for this_vertex in new_mesh.vertices : this_vertex.select = True"
select_vertices(mesh) ==
    [mesh EXCEPT !.vertices = [i \in 1..Len(mesh.vertices) |-> [mesh.vertices[i] EXCEPT !.select = TRUE]]]

\* bpy.data.objects.new(name, object_data)
objects_new(blocks, name, data) ==
    Append(blocks, [name |-> unique_name(NamesOf(blocks), name), data |-> data,
                    matrix_basis |-> <<>>, modifiers |-> <<>>,
                    select |-> FALSE, linked |-> FALSE])

\* "new_obj_name = new_obj.name" left out: the name asked for is used
name_as_asked(blocks, block, asked) == asked

\* "new_obj_name = new_obj.name": the name the host gave the datablock
name_read_back(blocks, block, asked) == blocks[block].name

\* bpy.data.objects[name]: the first datablock of that name
objects_lookup(blocks, name) ==
    CHOOSE i \in 1..Len(blocks) :
      /\ blocks[i].name = name
      /\ \A j \in 1..(i - 1) : blocks[j].name # name

\* bpy.ops.object.select_all(action = "DESELECT")
select_all_deselect(blocks) ==
    [i \in 1..Len(blocks) |->
       IF blocks[i].linked THEN [blocks[i] EXCEPT !.select = FALSE] ELSE blocks[i]]

\* tuple(self.position) and Vector(...): the three components, in order
tuple(p) == <<p[1], p[2], p[3]>>

Vector(t) == [i \in 1..3 |-> t[i]]

\* context.scene.cursor.location.copy()
copy(v) == [i \in 1..3 |-> v[i]]

\* Matrix.Translation(pos): the 4x4 identity with pos in its last column
Translation(v) ==
    [i \in 1..4 |-> [j \in 1..4 |->
       IF i = j THEN 1 ELSE IF j = 4 THEN v[i] ELSE 0]]

\* the location an object's matrix_basis puts it at
location(obj) == <<obj.matrix_basis[1][4], obj.matrix_basis[2][4], obj.matrix_basis[3][4]>>

\* new_obj.modifiers.new(name, type): the host gives a NODES modifier a
\* node group of its own, holding n nodes
modifiers_new(obj, name, type, n) ==
    [obj EXCEPT !.modifiers =
       Append(@, [name |-> name, type |-> type, node_group |-> FreshNodeGroup(n)])]

\* ------------------------------------------------------------ the state

VARIABLES
    cursor,     \* context.scene.cursor.location
    position,   \* the operator's position property
    meshtype,   \* the operator's meshtype property
    meshes,     \* bpy.data.meshes
    objects,    \* bpy.data.objects
    active,     \* context.view_layer.objects.active
    ret,        \* the call that has just returned: which callback, its
                \* status, its new_obj, the nodes its node group began with
    nc,         \* a NodeContext in use on its own
    given,      \* what that NodeContext was constructed with
    held,       \* the positions its step_across / step_down calls returned
    stage       \* how nc came about

vars == <<cursor, position, meshtype, meshes, objects, active, ret, nc, given, held, stage>>

scene_vars == <<cursor, position, meshtype, meshes, objects, active, ret>>

ctx_vars == <<nc, given, held, stage>>

\* pos of action_common when a redo starts from an empty Vector() instead
\* of the position property
placement_unset(self, redoing) ==
    IF redoing THEN Vector(<<0, 0, 0>>) ELSE copy(cursor)

\* lines 156-160: where the new object goes
placement(self, redoing) ==
    IF redoing THEN Vector(tuple(self.position)) ELSE copy(cursor)

\* AddGeometryNodeMesh.action_common(self, context, redoing), run on the
\* current state; self is the operator with its properties [meshtype,
\* position] and n the number of nodes the modifier's new node group holds.
\* The result names the datablocks, the active object and the status the
\* call leaves, with its locals new_obj and ctx.
action_common(self, redoing, n) ==
    LET pos0 == placement(self, redoing)
        deselected == select_all_deselect(objects)
        meshes1 == meshes_new(meshes, GeomNodeMesh)
        new_mesh == Len(meshes1)
        new_mesh_name == meshes1[new_mesh].name
        meshes2 == [meshes1 EXCEPT ![new_mesh] = from_pydata(@, <<>>, <<>>, <<>>)]
        objects1 == objects_new(deselected, new_mesh_name, new_mesh)
        new_obj == Len(objects1)
        new_obj_name == name_read_back(objects1, new_obj, new_mesh_name)
        objects2 == [objects1 EXCEPT ![new_obj].matrix_basis = Translation(pos0)]
        objects3 == [objects2 EXCEPT ![new_obj] = modifiers_new(@, "Geometry", "NODES", n)]
        geom_mod == Len(objects3[new_obj].modifiers)
        ctx == build_graph(objects3[new_obj].modifiers[geom_mod].node_group, self.meshtype)
        objects4 == [objects3 EXCEPT ![new_obj].modifiers[geom_mod].node_group = ctx.graph]
        objects5 == [objects4 EXCEPT ![new_obj].linked = TRUE]
        objects6 == [objects5 EXCEPT ![objects_lookup(objects5, new_obj_name)].select = TRUE]
        meshes3 == [meshes2 EXCEPT ![new_mesh] = select_vertices(@)]
    IN [meshes |-> meshes3, objects |-> objects6, active |-> new_obj,
        status |-> {"FINISHED"}, new_obj |-> new_obj, ctx |-> ctx]

\* AddGeometryNodeMesh.execute(context)
execute(self, n) == action_common(self, TRUE, n)

\* AddGeometryNodeMesh.invoke(context, event)
invoke(self, n) == action_common(self, FALSE, n)

\* the operator as the state holds it
operator == [meshtype |-> meshtype, position |-> position]

NoCall == [op |-> "none", status |-> {}, new_obj |-> 0, n |-> 0]

returned(op, r, n) ==
    [op |-> op, status |-> r.status, new_obj |-> r.new_obj, n |-> n]

\* what the user's scene may hold beforehand: nothing, or a plane that
\* happens to bear the name the operator asks for, selected and active
UserMesh ==
    [name |-> [base |-> "Plane", num |-> 0],
     vertices |-> [i \in 1..4 |-> [co |-> <<i % 2, i \div 3, 0>>, select |-> TRUE]],
     edges |-> << <<0, 1>>, <<1, 3>>, <<3, 2>>, <<2, 0>> >>,
     polygons |-> << <<0, 1, 3, 2>> >>,
     origin |-> "user"]

UserObject ==
    [name |-> GeomNodeMesh, data |-> 1, matrix_basis |-> Translation(<<0, 0, 0>>),
     modifiers |-> <<>>, select |-> TRUE, linked |-> TRUE]

NoContext == [graph |-> [nodes |-> <<>>, links |-> <<>>], heap |-> << <<0, 0>> >>, _location |-> 1]

NoGiven == [graph |-> [nodes |-> <<>>, links |-> <<>>], location |-> <<0, 0>>, clear |-> FALSE]

CtxIdle ==
    /\ nc = NoContext
    /\ given = NoGiven
    /\ held = <<>>
    /\ stage = "none"

SceneInit ==
    /\ cursor = <<0, 0, 0>>
    /\ position = <<0, 0, 0>>
    /\ meshtype = meshtype_default
    /\ \/ meshes = <<>> /\ objects = <<>> /\ active = 0
       \/ meshes = <<UserMesh>> /\ objects = <<UserObject>> /\ active = 1
    /\ ret = NoCall

Init == SceneInit /\ CtxIdle

\* the user moves the 3D cursor
MoveCursor ==
    /\ \E p \in Points : cursor' = p
    /\ ret' = NoCall
    /\ UNCHANGED <<position, meshtype, meshes, objects, active>>
    /\ UNCHANGED ctx_vars

\* the user selects every object of the scene
SelectAll ==
    /\ objects # <<>>
    /\ objects' = [i \in 1..Len(objects) |-> [objects[i] EXCEPT !.select = TRUE]]
    /\ ret' = NoCall
    /\ UNCHANGED <<cursor, position, meshtype, meshes, active>>
    /\ UNCHANGED ctx_vars

\* the operator is invoked from the Add > Mesh menu: its properties are as
\* the last call left them
Invoke ==
    /\ Len(objects) < MaxObjects
    /\ \E n \in 0..MaxInitNodes :
         LET r == invoke(operator, n)
         IN /\ meshes' = r.meshes
            /\ objects' = r.objects
            /\ active' = r.active
            /\ ret' = returned("invoke", r, n)
    /\ UNCHANGED <<cursor, position, meshtype>>
    /\ UNCHANGED ctx_vars

\* the operator is executed with the properties the caller (the redo panel,
\* a script) gives it
Execute ==
    /\ Len(objects) < MaxObjects
    /\ \E mt \in MeshTypes, p \in Points, n \in 0..MaxInitNodes :
         LET r == execute([meshtype |-> mt, position |-> p], n)
         IN /\ meshtype' = mt
            /\ position' = p
            /\ meshes' = r.meshes
            /\ objects' = r.objects
            /\ active' = r.active
            /\ ret' = returned("execute", r, n)
    /\ UNCHANGED cursor
    /\ UNCHANGED ctx_vars

Next == MoveCursor \/ SelectAll \/ Invoke \/ Execute

Spec == Init /\ [][Next]_vars

\* ------------------------------------------- a NodeContext on its own

\* locations a NodeContext is started at or set to
Locations == {<<0, 0>>, <<-300, 100>>}

\* NodeContext(graph, location, clear) on a node tree of n nodes
NewContext ==
    /\ stage = "none"
    /\ \E n \in 0..MaxInitNodes, loc \in Locations, clear \in BOOLEAN :
         /\ nc' = NodeContext(FreshNodeGroup(n), loc, clear)
         /\ given' = [graph |-> FreshNodeGroup(n), location |-> loc, clear |-> clear]
    /\ held' = <<>>
    /\ stage' = "new"
    /\ UNCHANGED scene_vars

\* what a step call returned, with the position before and after it
step_record(kind, by, r) ==
    [step |-> kind, by |-> by, result |-> r.result, before |-> pos(nc), after |-> pos(r.self)]

\* ctx.step_across(width)
StepAcross ==
    /\ stage = "new"
    /\ Len(held) < MaxSteps
    /\ \E width \in Steps :
         LET r == step_across(nc, width)
         IN /\ nc' = r.self
            /\ held' = Append(held, step_record("across", width, r))
    /\ UNCHANGED <<given, stage>>
    /\ UNCHANGED scene_vars

\* ctx.step_down(height)
StepDown ==
    /\ stage = "new"
    /\ Len(held) < MaxSteps
    /\ \E height \in Steps :
         LET r == step_down(nc, height)
         IN /\ nc' = r.self
            /\ held' = Append(held, step_record("down", height, r))
    /\ UNCHANGED <<given, stage>>
    /\ UNCHANGED scene_vars

\* ctx.pos = p
SetPos ==
    /\ stage = "new"
    /\ \E p \in Locations : nc' = pos_set(nc, p)
    /\ UNCHANGED <<given, held, stage>>
    /\ UNCHANGED scene_vars

\* lines 171-175 of action_common on a new node group of n nodes
BuildGraph ==
    /\ stage = "none"
    /\ \E n \in 0..MaxInitNodes, type \in MeshTypes :
         /\ nc' = build_graph(FreshNodeGroup(n), type)
         /\ given' = [graph |-> FreshNodeGroup(n), location |-> <<0, 0>>, clear |-> TRUE]
    /\ held' = <<>>
    /\ stage' = "built"
    /\ UNCHANGED scene_vars

NextCtx == NewContext \/ StepAcross \/ StepDown \/ SetPos \/ BuildGraph

SpecCtx == Init /\ [][NextCtx]_vars

\* ------------------------------------------------------------ properties

\* the node group of the Geometry Nodes modifier of the object the call
\* that has just returned made
NewGraph == objects[ret.new_obj].modifiers[1].node_group

\* C1: when invoke or execute has returned, the node tree of the new
\* object's NODES modifier holds exactly two nodes, a generator of type
\* meshtype and a NodeGroupOutput, and exactly one link, from the
\* generator's outputs[0] to the group output's inputs[0], whatever the
\* number of nodes the new node group began with.
C1_TwoNodeGraph ==
    ret.op # "none" =>
      /\ Len(objects[ret.new_obj].modifiers) = 1
      /\ objects[ret.new_obj].modifiers[1].type = "NODES"
      /\ Len(NewGraph.nodes) = 2
      /\ \E gen \in 1..2, out \in 1..2 :
           /\ gen # out
           /\ NewGraph.nodes[gen].type = meshtype
           /\ NewGraph.nodes[out].type = "NodeGroupOutput"
           /\ NewGraph.nodes[gen].id # NewGraph.nodes[out].id
           /\ NewGraph.links =
                << [from_node |-> NewGraph.nodes[gen].id, from_socket |-> 0,
                    to_node |-> NewGraph.nodes[out].id, to_socket |-> 0] >>

C1_Witness ==
    /\ ret.op = "execute"
    /\ ret.n = MaxInitNodes
    /\ meshtype = "GeometryNodeMeshUVSphere"
    /\ Len(NewGraph.nodes) = 2
    /\ Len(NewGraph.links) = 1
    /\ \E i \in 1..Len(objects) :
         /\ i # ret.new_obj
         /\ objects[i].modifiers # <<>>
         /\ objects[i].modifiers[1].node_group.nodes[1].type = "GeometryNodeMeshLine"

\* C2: after invoke has run with the cursor at L, the position property
\* equals L (so that a redo places the object at L again).
C2_PositionIsCursorAfterInvoke ==
    ret.op = "invoke" => position = cursor

\* C3: every mesh action_common made has no vertices, no edges and no
\* faces, and the loop selecting its vertices leaves it as it is.
C3_NoStoredGeometry ==
    \A i \in 1..Len(meshes) :
      meshes[i].origin = "action_common" =>
        /\ Len(meshes[i].vertices) = 0
        /\ Len(meshes[i].edges) = 0
        /\ Len(meshes[i].polygons) = 0
        /\ select_vertices(meshes[i]) = meshes[i]

C3_Witness ==
    /\ ret.op # "none"
    /\ Len(meshes) = 2
    /\ meshes[1].origin = "user"
    /\ Len(meshes[1].vertices) = 4
    /\ meshes[2].origin = "action_common"
    /\ objects[ret.new_obj].data = 2
    /\ meshes[2].vertices = <<>>

\* C4: the meshtype property offers exactly eight items, one per NODE_MESH
\* member, identifier the member's type name and name the member's label;
\* the type names are pairwise distinct, the items ascend by label, and
\* the default (and every value the property takes) is one of the eight
\* identifiers.
C4_EightChoices ==
    /\ Len(NODE_MESH) = 8
    /\ Len(meshtype_items) = 8
    /\ \A m \in 1..Len(NODE_MESH) :
         Cardinality({i \in 1..Len(meshtype_items) :
                        /\ meshtype_items[i][1] = typename(NODE_MESH[m])
                        /\ meshtype_items[i][2] = label(NODE_MESH[m])}) = 1
    /\ \A a, b \in 1..Len(NODE_MESH) :
         a # b => typename(NODE_MESH[a]) # typename(NODE_MESH[b])
    /\ \A i \in 1..(Len(meshtype_items) - 1) :
         StrLess(meshtype_items[i][2], meshtype_items[i + 1][2])
    /\ meshtype_default = typename(NODE_MESH[3])
    /\ \E i \in 1..Len(meshtype_items) : meshtype_items[i][1] = meshtype_default
    /\ \E i \in 1..Len(meshtype_items) : meshtype_items[i][1] = meshtype

C4_Witness ==
    /\ ret.op = "execute"
    /\ meshtype = meshtype_items[5][1]
    /\ meshtype = "GeometryNodeMeshGrid"
    /\ NewGraph.nodes[1].type = meshtype

\* C5: from the same state, with the same meshtype and with the position
\* property equal to the cursor location, invoke and execute leave the
\* same meshes, objects (transform, modifier graph, selection) and active
\* object, and both return {"FINISHED"}.
C5_InvokeExecuteAgree ==
    position = cursor =>
      \A n \in 0..MaxInitNodes :
        /\ invoke(operator, n) = execute(operator, n)
        /\ invoke(operator, n).status = {"FINISHED"}
        /\ execute(operator, n).status = {"FINISHED"}

C5_Witness ==
    /\ position = cursor
    /\ cursor = <<1, 2, 3>>
    /\ ret.op = "execute"
    /\ ret.status = {"FINISHED"}
    /\ location(objects[ret.new_obj]) = <<1, 2, 3>>
    /\ Len(objects) < MaxObjects
    /\ invoke(operator, 2).objects = execute(operator, 2).objects
    /\ location(invoke(operator, 2).objects[Len(objects) + 1]) = <<1, 2, 3>>

\* C6: NodeContext(graph, location, clear = True) leaves the graph with no
\* node, however many it held; with clear = False the graph is as it was.
C6_ClearRemovesAll ==
    stage = "new" =>
      /\ given.clear => nc.graph.nodes = <<>>
      /\ ~given.clear => nc.graph = given.graph

C6_Witness ==
    /\ stage = "new"
    /\ given.clear
    /\ Len(given.graph.nodes) = MaxInitNodes
    /\ Len(given.graph.links) = MaxInitNodes - 1
    /\ nc.graph.nodes = <<>>

\* C7: step_across(w) returns the position held before the call and adds w
\* to x only; step_down(h) returns the position held before the call and
\* takes h from y only; a returned position does not change afterwards.
\* Started at (0, 0), the graph building of action_common puts the
\* generator at (0, 0) and the group output at (200, 0) and leaves the
\* context at (300, 0).
C7_StepsAndLayout ==
    /\ \A i \in 1..Len(held) :
         /\ nc.heap[held[i].result] = held[i].before
         /\ held[i].step = "across" =>
              held[i].after = <<held[i].before[1] + held[i].by, held[i].before[2]>>
         /\ held[i].step = "down" =>
              held[i].after = <<held[i].before[1], held[i].before[2] - held[i].by>>
    /\ stage = "built" =>
         /\ \E i \in 1..Len(nc.graph.nodes) :
              /\ nc.graph.nodes[i].type \in MeshTypes
              /\ nc.graph.nodes[i].location = <<0, 0>>
         /\ \A i \in 1..Len(nc.graph.nodes) :
              nc.graph.nodes[i].type = "NodeGroupOutput" =>
                nc.graph.nodes[i].location = <<200, 0>>
         /\ \E i \in 1..Len(nc.graph.nodes) : nc.graph.nodes[i].type = "NodeGroupOutput"
         /\ pos(nc) = <<300, 0>>

C7_Witness ==
    /\ stage = "new"
    /\ Len(held) = 2
    /\ held[1].step = "across"
    /\ held[2].step = "down"
    /\ held[1].before # held[1].after
    /\ pos(nc) # held[2].after
    /\ nc.heap[held[1].result] = held[1].before

\* C8: when a call has returned, the object it made is the only selected
\* object of the scene and the active object, and the lookup by name used
\* for selecting it finds that object and no older one.
C8_OnlyNewObjectSelected ==
    ret.op # "none" =>
      /\ {i \in 1..Len(objects) : objects[i].linked /\ objects[i].select} = {ret.new_obj}
      /\ active = ret.new_obj
      /\ ret.new_obj = Len(objects)
      /\ objects_lookup(objects, objects[ret.new_obj].name) = ret.new_obj
      /\ \A i \in 1..Len(objects) : objects[i].linked

C8_Witness ==
    /\ ret.op = "invoke"
    /\ Len(objects) = 2
    /\ objects[1].name = GeomNodeMesh
    /\ objects[1].modifiers = <<>>
    /\ ~objects[1].select
    /\ objects[2].name = [base |-> "GeomNodeMesh", num |-> 1]
    /\ objects[2].select
    /\ active = 2

====
